---- MODULE Spec2Model ----
(***************************************************************************)
(* Model of today.py: the main sequence of GraphQL requests, the padding   *)
(* computation of svg_overwrite, its helper make_dots, and the document    *)
(* patcher find_and_replace.                                               *)
(*                                                                         *)
(* Representation.                                                         *)
(*  - A Python int metric is a decimal numeral: a non-empty sequence of    *)
(*    digits, most significant first, without a leading zero (<<0>> is     *)
(*    zero).  Python ints are unbounded, and the clamp of line 146 only    *)
(*    acts for commit counts of 10^12 and more, beyond machine integers.   *)
(*  - A Python str is a sequence of one-character strings.                 *)
(*  - A parsed document (the descendants of the root, in document order)   *)
(*    is a sequence of elements [id, text]; id "" is an element without an *)
(*    id attribute.                                                        *)
(***************************************************************************)
EXTENDS Integers, Sequences, FiniteSets, TLC

VARIABLES
    pc,             \* position in the __main__ block (lines 266-295)
    QUERY_COUNT,    \* line 10: calls issued, per function name
    status_code,    \* request.status_code of the last response (0: none yet)
    age_data, commit_data, star_data, repo_data, contrib_data, follower_data,
    files,          \* file name -> document stored under that name
    writes,         \* file name -> number of tree.write calls on it
    repo_dots, commit_dots, follower_dots, star_dots,
                    \* locals of the last svg_overwrite call (0: not called yet)
    n, dots         \* argument and result of a direct make_dots call

vars == <<pc, QUERY_COUNT, status_code, age_data, commit_data, star_data,
          repo_data, contrib_data, follower_data, files, writes,
          repo_dots, commit_dots, follower_dots, star_dots, n, dots>>

metrics == <<commit_data, star_data, repo_data, contrib_data, follower_data>>
padvars == <<repo_dots, commit_dots, follower_dots, star_dots>>
dotvars == <<n, dots>>

----------------------------------------------------------------------------
(* Bounds of the model *)

\* commit counts of up to this many digits are drawn
MaxDigits == 15
\* repo, contrib and follower counts of up to this many digits are drawn
MaxSmallDigits == 4
\* number of repository edges in a 'stars' response
MaxEdges == 2
\* make_dots is applied to every n in -MaxN .. MaxN
MaxN == 60
\* number of times svg_overwrite is re-applied to one file
MaxRuns == 2

----------------------------------------------------------------------------
(* Numerals and their rendering *)

Max(a, b) == IF a >= b THEN a ELSE b

\* 10^(d-1): a one followed by d-1 zeros
PowTen(d) == [i \in 1..d |-> IF i = 1 THEN 1 ELSE 0]
\* 10^d - 1: d nines
AllNines(d) == [i \in 1..d |-> 9]

\* The numeral of a machine-sized non-negative integer.
RECURSIVE ToNumeral(_)
ToNumeral(k) == IF k < 10 THEN <<k>> ELSE Append(ToNumeral(k \div 10), k % 10)

DigitChar(k) == <<"0", "1", "2", "3", "4", "5", "6", "7", "8", "9">>[k + 1]

\* f"{x:,}" (lines 123-127): the digits, with a comma before every group of
\* three counted from the right.
RECURSIVE FormatFrom(_, _)
FormatFrom(num, i) ==
    IF i > Len(num) THEN <<>>
    ELSE (IF i > 1 /\ (Len(num) - i + 1) % 3 = 0 THEN <<",">> ELSE <<>>)
         \o <<DigitChar(num[i])>> \o FormatFrom(num, i + 1)

\* f"{x}": the digits without separators
FormatPlain(num) == [i \in 1..Len(num) |-> DigitChar(num[i])]

FormatThousands(num) == FormatFrom(num, 1)

----------------------------------------------------------------------------
(* svg_overwrite: the padding computation (lines 129-161) *)

\* Fixed label text of the two lines (comments of lines 129-137).
Line1LeftFixed == Len(". Repos:") + Len(" {Contributed: ") + Len("}")
Line2LeftFixed == Len(". Commits:")
StarsLabel == Len("Stars:")
FollowersLabel == Len("Followers:")

\* line 141
MinRepoDots == 4

\* line 145 written from the comment of line 135, leaving repo_dots out
CommitDotsRaw_NoRepoDots(repo_str, contrib_str, commit_str) ==
    14 + Len(repo_str) + Len(contrib_str) - Len(commit_str)

\* line 145
CommitDotsRaw(repo_str, contrib_str, commit_str) ==
    24 + Len(repo_str) + Len(contrib_str) + MinRepoDots - 10 - Len(commit_str)

\* line 146 left out: no floor
CommitDots_NoClamp(repo_str, contrib_str, commit_str) ==
    CommitDotsRaw(repo_str, contrib_str, commit_str)

\* line 146
CommitDots(repo_str, contrib_str, commit_str) ==
    Max(4, CommitDotsRaw(repo_str, contrib_str, commit_str))

\* line 149
MinFollowerDots == 8

\* line 150 with the compensation applied in the wrong direction
StarDots_Minus(fdots) == fdots - 4

\* line 150
StarDots(fdots) == fdots + 4

RECURSIVE Repeat(_, _)
Repeat(c, k) == IF k <= 0 THEN <<>> ELSE <<c>> \o Repeat(c, k - 1)

\* lines 153-161 with the dot count of justify_format (line 190): k dots
\* between the blanks
make_dots_unadjusted(k) ==
    IF k <= 0 THEN <<" ">>
    ELSE IF k = 1 THEN <<" ">>
    ELSE IF k = 2 THEN <<".", " ">>
    ELSE <<" ">> \o Repeat(".", k) \o <<" ">>

\* lines 153-161
make_dots(k) ==
    IF k <= 0 THEN <<" ">>
    ELSE IF k = 1 THEN <<" ">>
    ELSE IF k = 2 THEN <<".", " ">>
    ELSE <<" ">> \o Repeat(".", k - 2) \o <<" ">>

----------------------------------------------------------------------------
(* find_and_replace (lines 194-200) *)

\* root.find(".//*[contains(@id, '...')]"): the id, or the id with the
\* "_dots" suffix, also matches
find_contains(root, element_id) ==
    IF \E i \in 1..Len(root) : root[i].id \in {element_id, element_id \o "_dots"}
    THEN CHOOSE i \in 1..Len(root) :
            /\ root[i].id \in {element_id, element_id \o "_dots"}
            /\ \A j \in 1..(i - 1) : root[j].id \notin {element_id, element_id \o "_dots"}
    ELSE 0

\* root.find(".//*[@id='...']"): index of the first element, in document
\* order, carrying the id; 0 stands for None.
find(root, element_id) ==
    IF \E i \in 1..Len(root) : root[i].id = element_id
    THEN CHOOSE i \in 1..Len(root) :
            /\ root[i].id = element_id
            /\ \A j \in 1..(i - 1) : root[j].id # element_id
    ELSE 0

\* element.text += new_text
find_and_replace_append(root, element_id, new_text) ==
    IF \E i \in 1..Len(root) : root[i].id = element_id
    THEN LET element == CHOOSE i \in 1..Len(root) :
                            /\ root[i].id = element_id
                            /\ \A j \in 1..(i - 1) : root[j].id # element_id
         IN  [root EXCEPT ![element].text = @ \o new_text]
    ELSE root

find_and_replace(root, element_id, new_text) ==
    LET element == find(root, element_id)
    IN  IF element # 0 THEN [root EXCEPT ![element].text = new_text] ELSE root

\* lines 122-127 and 141-172: the tree after the nine replacements
svg_tree(root, commit, star, repo, contrib, follower) ==
    LET repo_str     == FormatThousands(repo)
        contrib_str  == FormatThousands(contrib)
        star_str     == FormatThousands(star)
        commit_str   == FormatThousands(commit)
        follower_str == FormatThousands(follower)
        rdots == MinRepoDots
        cdots == CommitDots(repo_str, contrib_str, commit_str)
        fdots == MinFollowerDots
        sdots == StarDots(fdots)
        r1 == find_and_replace(root, "repo_data", repo_str)
        r2 == find_and_replace(r1, "repo_data_dots", make_dots(rdots))
        r3 == find_and_replace(r2, "contrib_data", contrib_str)
        r4 == find_and_replace(r3, "star_data", star_str)
        r5 == find_and_replace(r4, "star_data_dots", make_dots(sdots))
        r6 == find_and_replace(r5, "commit_data", commit_str)
        r7 == find_and_replace(r6, "commit_data_dots", make_dots(cdots))
        r8 == find_and_replace(r7, "follower_data", follower_str)
        r9 == find_and_replace(r8, "follower_data_dots", make_dots(fdots))
    IN  r9

----------------------------------------------------------------------------
(* Documents *)

DarkFile == "dark_mode.svg"
LightFile == "light_mode.svg"
FileNames == {DarkFile, LightFile}

\* The nine ids svg_overwrite writes (lines 164-172).
SlotIds == {"repo_data", "repo_data_dots", "contrib_data", "star_data",
            "star_data_dots", "commit_data", "commit_data_dots",
            "follower_data", "follower_data_dots"}

\* A template in the layout of lines 129-130, with text t in every element:
\* a label without id, the age element, and the nine slots.
Template(t) ==
    << [id |-> "",                   text |-> t],
       [id |-> "age_data",           text |-> t],
       [id |-> "repo_data_dots",     text |-> t],
       [id |-> "repo_data",          text |-> t],
       [id |-> "contrib_data",       text |-> t],
       [id |-> "star_data_dots",     text |-> t],
       [id |-> "star_data",          text |-> t],
       [id |-> "commit_data_dots",   text |-> t],
       [id |-> "commit_data",        text |-> t],
       [id |-> "follower_data_dots", text |-> t],
       [id |-> "follower_data",      text |-> t] >>

InitialTexts == { <<>>, <<"?">> }

\* The template with only the slots of `present` kept.
IsKept(present, e) == e.id \notin SlotIds \/ e.id \in present
RECURSIVE Keep(_, _)
Keep(doc, present) ==
    IF doc = <<>> THEN <<>>
    ELSE (IF IsKept(present, Head(doc)) THEN <<Head(doc)>> ELSE <<>>)
         \o Keep(Tail(doc), present)

\* Text of the element carrying the id (<<>> when absent).
TextOf(doc, element_id) ==
    IF find(doc, element_id) = 0 THEN <<>> ELSE doc[find(doc, element_id)].text

----------------------------------------------------------------------------
(* Values a response can carry *)

Unset == <<>>

CommitValues ==
    {<<0>>} \cup {PowTen(d) : d \in 1..MaxDigits} \cup {AllNines(d) : d \in 1..MaxDigits}
SmallValues ==
    {<<0>>} \cup {PowTen(d) : d \in 1..MaxSmallDigits}
            \cup {AllNines(d) : d \in 1..MaxSmallDigits}
FollowerValues == {<<0>>, <<1, 2>>, PowTen(MaxSmallDigits)}
\* stargazers.totalCount of one repository node
StarCounts == {0, 7, 1500}
\* the 'edges' list of a response
EdgeLists == UNION {[1..k -> StarCounts] : k \in 0..MaxEdges}

StatusCodes == {200, 401, 502}

\* lines 105-111
RECURSIVE stars_counter(_)
stars_counter(data) ==
    IF data = <<>> THEN 0 ELSE Head(data) + stars_counter(Tail(data))

----------------------------------------------------------------------------
(* svg_overwrite as a step (lines 114-174) *)

\* svg_overwrite(filename, ...) for every filename of `names`, on the given
\* metric values: parse, patch, tree.write back to the same name.
SvgOverwrite(names, commit, star, repo, contrib, follower) ==
    /\ files' = [f \in FileNames |->
                    IF f \in names
                    THEN svg_tree(files[f], commit, star, repo, contrib, follower)
                    ELSE files[f]]
    /\ writes' = [f \in FileNames |-> IF f \in names THEN writes[f] + 1 ELSE writes[f]]
    /\ repo_dots' = MinRepoDots
    /\ commit_dots' = CommitDots(FormatThousands(repo), FormatThousands(contrib),
                                 FormatThousands(commit))
    /\ follower_dots' = MinFollowerDots
    /\ star_dots' = StarDots(MinFollowerDots)

----------------------------------------------------------------------------
(* The main sequence (lines 266-295) *)

\* query_count (lines 236-241)
query_count(funct_id) ==
    QUERY_COUNT' = [QUERY_COUNT EXCEPT ![funct_id] = @ + 1]

\* simple_request without the status check: the response is returned whatever
\* its status
simple_request_unchecked(status, next) ==
    /\ status_code' = status
    /\ pc' = next

\* simple_request (lines 39-46): the response has some status; anything but
\* 200 raises, and the uncaught exception ends the process.
simple_request(status, next) ==
    /\ status_code' = status
    /\ pc' = IF status = 200 THEN next ELSE "aborted"

\* line 272, user_getter (lines 203-217)
UserGetter ==
    /\ pc = "user_getter"
    /\ query_count("user_getter")
    /\ \E status \in StatusCodes : simple_request(status, "daily_readme")
    /\ UNCHANGED <<age_data, metrics, files, writes, padvars, dotvars>>

\* line 275, daily_readme (lines 13-24): no request; the age text is opaque
DailyReadme ==
    /\ pc = "daily_readme"
    /\ pc' = "graph_commits"
    /\ age_data' = <<"a", "g", "e">>
    /\ UNCHANGED <<QUERY_COUNT, status_code, metrics, files, writes, padvars, dotvars>>

\* line 280, graph_commits (lines 49-66)
GraphCommits ==
    /\ pc = "graph_commits"
    /\ query_count("graph_commits")
    /\ \E status \in StatusCodes :
        /\ simple_request(status, "stars")
        /\ IF status = 200
           THEN \E v \in CommitValues : commit_data' = v
           ELSE UNCHANGED commit_data
    /\ UNCHANGED <<age_data, star_data, repo_data, contrib_data, follower_data,
                   files, writes, padvars, dotvars>>

\* line 282, graph_repos_stars('stars', ['OWNER']) (lines 69-102)
GraphStars ==
    /\ pc = "stars"
    /\ query_count("graph_repos_stars")
    /\ \E status \in StatusCodes :
        /\ simple_request(status, "repos")
        /\ IF status = 200
           THEN \E edges \in EdgeLists : star_data' = ToNumeral(stars_counter(edges))
           ELSE UNCHANGED star_data
    /\ UNCHANGED <<age_data, commit_data, repo_data, contrib_data, follower_data,
                   files, writes, padvars, dotvars>>

\* line 283, graph_repos_stars('repos', ['OWNER'])
GraphRepos ==
    /\ pc = "repos"
    /\ query_count("graph_repos_stars")
    /\ \E status \in StatusCodes :
        /\ simple_request(status, "contrib")
        /\ IF status = 200
           THEN \E v \in SmallValues : repo_data' = v
           ELSE UNCHANGED repo_data
    /\ UNCHANGED <<age_data, commit_data, star_data, contrib_data, follower_data,
                   files, writes, padvars, dotvars>>

\* line 284, graph_repos_stars('repos', ['OWNER', 'COLLABORATOR', ...])
GraphContrib ==
    /\ pc = "contrib"
    /\ query_count("graph_repos_stars")
    /\ \E status \in StatusCodes :
        /\ simple_request(status, "follower_getter")
        /\ IF status = 200
           THEN \E v \in SmallValues : contrib_data' = v
           ELSE UNCHANGED contrib_data
    /\ UNCHANGED <<age_data, commit_data, star_data, repo_data, follower_data,
                   files, writes, padvars, dotvars>>

\* line 285, follower_getter (lines 219-233)
FollowerGetter ==
    /\ pc = "follower_getter"
    /\ query_count("follower_getter")
    /\ \E status \in StatusCodes :
        /\ simple_request(status, "svg_dark")
        /\ IF status = 200
           THEN \E v \in FollowerValues : follower_data' = v
           ELSE UNCHANGED follower_data
    /\ UNCHANGED <<age_data, commit_data, star_data, repo_data, contrib_data,
                   files, writes, padvars, dotvars>>

\* line 287
SvgDark ==
    /\ pc = "svg_dark"
    /\ pc' = "svg_light"
    /\ SvgOverwrite({DarkFile}, commit_data, star_data, repo_data, contrib_data,
                    follower_data)
    /\ UNCHANGED <<QUERY_COUNT, status_code, age_data, metrics, dotvars>>

\* line 288
SvgLight ==
    /\ pc = "svg_light"
    /\ pc' = "report"
    /\ SvgOverwrite({LightFile}, commit_data, star_data, repo_data, contrib_data,
                    follower_data)
    /\ UNCHANGED <<QUERY_COUNT, status_code, age_data, metrics, dotvars>>

\* lines 290-295: the printed report
Report ==
    /\ pc = "report"
    /\ pc' = "done"
    /\ UNCHANGED <<QUERY_COUNT, status_code, age_data, metrics, files, writes,
                   padvars, dotvars>>

NoCalls == [f \in {"user_getter", "follower_getter", "graph_repos_stars",
                   "graph_commits"} |-> 0]

Init ==
    /\ pc = "user_getter"
    /\ QUERY_COUNT = NoCalls
    /\ status_code = 0
    /\ age_data = Unset /\ commit_data = Unset /\ star_data = Unset
    /\ repo_data = Unset /\ contrib_data = Unset /\ follower_data = Unset
    /\ files = [f \in FileNames |-> Template(<<"?">>)]
    /\ writes = [f \in FileNames |-> 0]
    /\ repo_dots = 0 /\ commit_dots = 0 /\ follower_dots = 0 /\ star_dots = 0
    /\ n = 0 /\ dots = Unset

Next ==
    \/ UserGetter
    \/ DailyReadme
    \/ GraphCommits
    \/ GraphStars
    \/ GraphRepos
    \/ GraphContrib
    \/ FollowerGetter
    \/ SvgDark
    \/ SvgLight
    \/ Report

Spec == Init /\ [][Next]_vars

----------------------------------------------------------------------------
(* make_dots applied on its own to every n of the range *)

InitDots ==
    /\ pc = "make_dots"
    /\ n \in -MaxN..MaxN
    /\ dots = Unset
    /\ QUERY_COUNT = NoCalls
    /\ status_code = 0
    /\ age_data = Unset /\ commit_data = Unset /\ star_data = Unset
    /\ repo_data = Unset /\ contrib_data = Unset /\ follower_data = Unset
    /\ files = [f \in FileNames |-> Template(<<"?">>)]
    /\ writes = [f \in FileNames |-> 0]
    /\ repo_dots = 0 /\ commit_dots = 0 /\ follower_dots = 0 /\ star_dots = 0

MakeDots ==
    /\ pc = "make_dots"
    /\ pc' = "made"
    /\ dots' = make_dots(n)
    /\ UNCHANGED <<n, QUERY_COUNT, status_code, age_data, metrics, files, writes,
                   padvars>>

NextDots == MakeDots

SpecDots == InitDots /\ [][NextDots]_vars

----------------------------------------------------------------------------
(* svg_overwrite applied, and applied again, to a file that holds any      *)
(* subset of the nine slots                                                *)

PatchValues == {<<7>>, PowTen(4)}

InitPatch ==
    /\ pc = "patch"
    /\ \E present \in SUBSET SlotIds, t \in InitialTexts :
          files = [f \in FileNames |-> Keep(Template(t), present)]
    /\ writes = [f \in FileNames |-> 0]
    /\ commit_data \in PatchValues /\ star_data \in PatchValues
    /\ repo_data \in PatchValues /\ contrib_data \in PatchValues
    /\ follower_data \in PatchValues
    /\ age_data = <<"a", "g", "e">>
    /\ QUERY_COUNT = NoCalls
    /\ status_code = 0
    /\ repo_dots = 0 /\ commit_dots = 0 /\ follower_dots = 0 /\ star_dots = 0
    /\ n = 0 /\ dots = Unset

Patch ==
    /\ pc = "patch"
    /\ writes[DarkFile] < MaxRuns
    /\ SvgOverwrite({DarkFile}, commit_data, star_data, repo_data, contrib_data,
                    follower_data)
    /\ UNCHANGED <<pc, QUERY_COUNT, status_code, age_data, metrics, dotvars>>

NextPatch == Patch

SpecPatch == InitPatch /\ [][NextPatch]_vars

----------------------------------------------------------------------------
(* Successive complete runs of the main sequence between which one metric  *)
(* has gained a digit                                                      *)

\* QUERY_COUNT at the end of a run in which all six requests succeeded
AllCalls == [NoCalls EXCEPT !["user_getter"] = 1, !["graph_commits"] = 1,
                            !["graph_repos_stars"] = 3, !["follower_getter"] = 1]

\* lines 266-288 with every response a 200 carrying the given values
CompleteRun(commit, star, repo, contrib, follower) ==
    /\ QUERY_COUNT' = AllCalls
    /\ status_code' = 200
    /\ commit_data' = commit /\ star_data' = star /\ repo_data' = repo
    /\ contrib_data' = contrib /\ follower_data' = follower
    /\ SvgOverwrite(FileNames, commit, star, repo, contrib, follower)
    /\ UNCHANGED <<age_data, dotvars>>

InitRerun ==
    /\ pc = "first_run"
    /\ commit_data \in CommitValues
    /\ repo_data \in SmallValues
    /\ contrib_data \in SmallValues
    /\ star_data = <<7>>
    /\ follower_data = <<1, 2>>
    /\ age_data = <<"a", "g", "e">>
    /\ QUERY_COUNT = NoCalls
    /\ status_code = 0
    /\ files = [f \in FileNames |-> Template(<<"?">>)]
    /\ writes = [f \in FileNames |-> 0]
    /\ repo_dots = 0 /\ commit_dots = 0 /\ follower_dots = 0 /\ star_dots = 0
    /\ n = 0 /\ dots = Unset

FirstRun ==
    /\ pc = "first_run"
    /\ pc' = "ran"
    /\ CompleteRun(commit_data, star_data, repo_data, contrib_data, follower_data)

\* a value of the set with one digit more than v
OneDigitMore(set, v) == {w \in set : Len(w) = Len(v) + 1}

RerunCommit ==
    /\ pc # "first_run"
    /\ writes[DarkFile] < MaxRuns
    /\ pc' = "commit_grew"
    /\ \E w \in OneDigitMore(CommitValues, commit_data) :
          CompleteRun(w, star_data, repo_data, contrib_data, follower_data)

RerunRepo ==
    /\ pc # "first_run"
    /\ writes[DarkFile] < MaxRuns
    /\ pc' = "repo_grew"
    /\ \E w \in OneDigitMore(SmallValues, repo_data) :
          CompleteRun(commit_data, star_data, w, contrib_data, follower_data)

RerunContrib ==
    /\ pc # "first_run"
    /\ writes[DarkFile] < MaxRuns
    /\ pc' = "contrib_grew"
    /\ \E w \in OneDigitMore(SmallValues, contrib_data) :
          CompleteRun(commit_data, star_data, repo_data, w, follower_data)

NextRerun ==
    \/ FirstRun
    \/ RerunCommit
    \/ RerunRepo
    \/ RerunContrib

SpecRerun == InitRerun /\ [][NextRerun]_vars

----------------------------------------------------------------------------
(* Properties *)

\* rendered widths of the current metric values
rw == Len(FormatThousands(repo_data))
cw == Len(FormatThousands(contrib_data))
mw == Len(FormatThousands(commit_data))
sw == Len(FormatThousands(star_data))
fw == Len(FormatThousands(follower_data))

\* svg_overwrite has run on the current metric values
Overwritten == writes[DarkFile] >= 1

\* width of the text the document holds under an id
Width(doc, element_id) == Len(TextOf(doc, element_id))

\* C1: after svg_overwrite, repo_dots is 4 and, whenever the unclamped
\* second-line pad 24 + rw + cw + 4 - 10 - mw is at least 4, the left blocks
\* of both lines are equally wide: 24 + rw + cw + repo_dots =
\* 10 + mw + commit_dots; widths (3, 2) against 6 give commit_dots = 17.
C1_OffFloorLeftBlocksEqual ==
    Overwritten =>
        /\ repo_dots = 4
        /\ (24 + rw + cw + 4 - 10 - mw >= 4) =>
              24 + rw + cw + repo_dots = 10 + mw + commit_dots
        /\ (rw = 3 /\ cw = 2 /\ mw = 6) => commit_dots = 17

C1_Witness ==
    /\ Overwritten
    /\ rw = 3 /\ cw = 2 /\ mw = 6
    /\ commit_dots = 17

\* C2: for every magnitude of repo, contrib and commit, after svg_overwrite of
\* a file the separator stands at the same column on both lines: fixed label
\* width + rendered value widths + rendered pad width of line 1's left block
\* equals that of line 2's.
C2_SeparatorSameColumn ==
    \A f \in FileNames :
        writes[f] >= 1 =>
            Line1LeftFixed + Width(files[f], "repo_data")
                + Width(files[f], "contrib_data") + Width(files[f], "repo_data_dots")
            = Line2LeftFixed + Width(files[f], "commit_data")
                + Width(files[f], "commit_data_dots")

\* C3: for all star and follower values, after svg_overwrite of a file the
\* right edge stands at the same column on both lines:
\* len("Stars:") + star pad + star width =
\* len("Followers:") + follower pad + follower width.
C3_RightEdgeSameColumn ==
    \A f \in FileNames :
        writes[f] >= 1 =>
            /\ StarsLabel + Width(files[f], "star_data_dots") + Width(files[f], "star_data")
               = FollowersLabel + Width(files[f], "follower_data_dots")
                    + Width(files[f], "follower_data")
            /\ 6 + star_dots + sw = 10 + follower_dots + fw

\* C4: the four pad lengths svg_overwrite computes are never below their
\* minimums: repo_dots >= 4, commit_dots >= 4, follower_dots >= 8,
\* star_dots >= 8; and star_dots = follower_dots + 4 = 12 when follower_dots
\* is 8.
C4_PadsAtLeastMinimum ==
    Overwritten =>
        /\ repo_dots >= 4
        /\ commit_dots >= 4
        /\ follower_dots >= 8
        /\ star_dots >= 8
        /\ follower_dots = 8 => (star_dots = follower_dots + 4 /\ star_dots = 12)

\* the floor acts: the unclamped pad is below 4
C4_Witness ==
    /\ Overwritten
    /\ 24 + rw + cw + 4 - 10 - mw < 4
    /\ commit_dots = 4
    /\ follower_dots = 8 /\ star_dots = 12

\* C5 as stated: the minimum pad 8 goes to the line whose trailing label is
\* shorter ("Stars:", line 1) and 12 to the line whose trailing label is
\* longer ("Followers:", line 2).
C5_MinimumOnShorterLabel ==
    Overwritten =>
        /\ StarsLabel < FollowersLabel
        /\ star_dots = 8
        /\ follower_dots = 12

\* C5 (amended): the minimum pad 8 goes to the line whose trailing label is
\* longer ("Followers:", 10 characters, line 2) and 8 + 4 = 12 to the line
\* whose trailing label is shorter ("Stars:", 6 characters, line 1), so that
\* label width plus pad is the same on both lines.
C5_MinimumOnLongerLabel ==
    Overwritten =>
        /\ StarsLabel = 6 /\ FollowersLabel = 10
        /\ follower_dots = 8
        /\ star_dots = 12
        /\ StarsLabel + star_dots = FollowersLabel + follower_dots
        /\ \A f \in FileNames :
              writes[f] >= 1 =>
                 /\ Width(files[f], "follower_data_dots") = 8
                 /\ Width(files[f], "star_data_dots") = 12

C5_Witness ==
    /\ pc = "done"
    /\ follower_dots = 8 /\ star_dots = 12
    /\ Width(files[LightFile], "star_data_dots") = 12
    /\ Width(files[LightFile], "follower_data_dots") = 8

\* a later run has rewritten the files
RanAgain == writes[DarkFile] >= 1 /\ writes'[DarkFile] > writes[DarkFile]

\* between two runs exactly the named metric went from 3 digits to 4
CommitGrows ==
    /\ Len(commit_data) = 3 /\ Len(commit_data') = 4
    /\ UNCHANGED <<star_data, repo_data, contrib_data, follower_data>>
RepoGrows ==
    /\ Len(repo_data) = 3 /\ Len(repo_data') = 4
    /\ UNCHANGED <<commit_data, star_data, contrib_data, follower_data>>
ContribGrows ==
    /\ Len(contrib_data) = 3 /\ Len(contrib_data') = 4
    /\ UNCHANGED <<commit_data, star_data, repo_data, follower_data>>

\* the commit pad of the earlier run is off its floor
OffFloorBefore == 24 + rw + cw + 4 - 10 - mw >= 4

\* C6 as stated: when one metric grows from 3 digits to 4 between two runs,
\* the pad of the line holding it decreases by exactly 1 and the pad of the
\* sibling line is unchanged (repo, contrib: own pad repo_dots, sibling
\* commit_dots; commit: own pad commit_dots, sibling repo_dots), while the
\* commit pad is above its floor.
C6_OwnPadDownByOne ==
    [][ (RanAgain /\ OffFloorBefore) =>
          /\ CommitGrows => (commit_dots' = commit_dots - 1 /\ repo_dots' = repo_dots)
          /\ RepoGrows => (repo_dots' = repo_dots - 1 /\ commit_dots' = commit_dots)
          /\ ContribGrows => (repo_dots' = repo_dots - 1 /\ commit_dots' = commit_dots)
      ]_vars

\* C6 (amended): a metric growing from 3 digits to 4 grows by 2 in rendered
\* width (a thousands separator appears).  While the commit pad is off its
\* floor before the growth: when commit grows, commit_dots decreases by
\* exactly 2 and repo_dots is unchanged; when repo or contrib grows,
\* repo_dots, the pad of their own line, is unchanged at 4 and the sibling
\* pad commit_dots increases by exactly 2.
C6_PadFollowsRenderedWidth ==
    [][ (RanAgain /\ OffFloorBefore) =>
          /\ CommitGrows =>
                /\ Len(FormatThousands(commit_data')) = mw + 2
                /\ commit_dots' = commit_dots - 2
                /\ repo_dots' = repo_dots
          /\ RepoGrows =>
                /\ Len(FormatThousands(repo_data')) = rw + 2
                /\ repo_dots' = repo_dots /\ repo_dots' = 4
                /\ commit_dots' = commit_dots + 2
          /\ ContribGrows =>
                /\ Len(FormatThousands(contrib_data')) = cw + 2
                /\ repo_dots' = repo_dots /\ repo_dots' = 4
                /\ commit_dots' = commit_dots + 2
      ]_vars

\* a second run after commit grew from 3 digits to 4, the pad off its floor
C6_Witness ==
    /\ pc = "commit_grew"
    /\ writes[DarkFile] = 2
    /\ Len(commit_data) = 4
    /\ commit_dots = 24 + rw + cw + 4 - 10 - mw
    /\ commit_dots > 4

\* C7: make_dots(n) is a single blank for n <= 0 and n = 1, a dot and a blank
\* for n = 2, and for n > 2 a blank, exactly n - 2 dots and a blank
\* (make_dots(5) = " ... "); its length is n for every n >= 1; it returns a
\* string for every integer n.
C7_MakeDotsRendering ==
    pc = "made" =>
        /\ (n <= 0 \/ n = 1) => dots = <<" ">>
        /\ n = 2 => dots = <<".", " ">>
        /\ n > 2 =>
              /\ Len(dots) = n
              /\ dots[1] = " " /\ dots[n] = " "
              /\ \A i \in 2..(n - 1) : dots[i] = "."
        /\ n = 5 => dots = <<" ", ".", ".", ".", " ">>
        /\ n >= 1 => Len(dots) = n
        /\ \A i \in 1..Len(dots) : dots[i] \in {" ", "."}

C7_Witness ==
    /\ pc = "made"
    /\ n = 5
    /\ dots = <<" ", ".", ".", ".", " ">>

\* number of requests issued so far
Issued == QUERY_COUNT["user_getter"] + QUERY_COUNT["graph_commits"]
            + QUERY_COUNT["graph_repos_stars"] + QUERY_COUNT["follower_getter"]

Untouched ==
    \A f \in FileNames : writes[f] = 0 /\ files[f] = Template(<<"?">>)

\* C8: in every run of the main sequence, a request that returns a non-200
\* status aborts the run at that request: no later request is issued and
\* neither document is ever written; a document is written only after all six
\* requests have succeeded.
C8_AllOrNothing ==
    /\ [] /\ status_code \notin {0, 200} => pc = "aborted"
          /\ pc = "aborted" => (status_code \notin {0, 200} /\ Untouched)
          /\ ~Untouched =>
                /\ Issued = 6 /\ QUERY_COUNT = AllCalls
                /\ status_code = 200
                /\ pc \in {"svg_light", "report", "done"}
    /\ [][ pc = "aborted" =>
              (QUERY_COUNT' = QUERY_COUNT /\ files' = files /\ writes' = writes) ]_vars
    /\ [][ (status_code' \notin {0, 200} /\ pc # "aborted") =>
              (pc' = "aborted" /\ Issued' = Issued + 1) ]_vars

\* the run aborted at the second graph_repos_stars request
C8_Witness ==
    /\ pc = "aborted"
    /\ status_code = 502
    /\ Issued = 4
    /\ QUERY_COUNT["graph_repos_stars"] = 2
    /\ QUERY_COUNT["follower_getter"] = 0
    /\ Untouched

\* ids a caller may name: the nine slots, an id svg_overwrite never names,
\* and an id no document holds
ProbeIds == SlotIds \cup {"age_data", "no_such_id"}
ProbeTexts == { <<>>, <<"x">> }

\* find_and_replace keeps the elements and their ids, sets the text of the
\* element carrying the id and no other, and returns the tree as it is when
\* no element carries the id
ReplacesOnlyThat(doc, element_id, new_text) ==
    LET out == find_and_replace(doc, element_id, new_text)
    IN  /\ Len(out) = Len(doc)
        /\ \A i \in 1..Len(doc) :
              /\ out[i].id = doc[i].id
              /\ out[i].text = IF doc[i].id = element_id THEN new_text ELSE doc[i].text
        /\ (\A i \in 1..Len(doc) : doc[i].id # element_id) => out = doc

\* the text svg_overwrite puts under a slot id (lines 164-172)
SlotText(element_id) ==
    CASE element_id = "repo_data"          -> FormatThousands(repo_data)
      [] element_id = "repo_data_dots"     -> <<" ", ".", ".", " ">>
      [] element_id = "contrib_data"       -> FormatThousands(contrib_data)
      [] element_id = "star_data"          -> FormatThousands(star_data)
      [] element_id = "star_data_dots"     -> <<" ">> \o Repeat(".", 10) \o <<" ">>
      [] element_id = "commit_data"        -> FormatThousands(commit_data)
      [] element_id = "commit_data_dots"   ->
            <<" ">> \o Repeat(".", Max(4, 24 + rw + cw + 4 - 10 - mw) - 2) \o <<" ">>
      [] element_id = "follower_data"      -> FormatThousands(follower_data)
      [] element_id = "follower_data_dots" -> <<" ">> \o Repeat(".", 6) \o <<" ">>

\* C9: find_and_replace changes only the text of the element carrying the id
\* and leaves every other element's text and the structure unchanged; it is a
\* no-op when no element carries the id; so svg_overwrite on a document
\* missing any subset of the nine slots sets every slot that is present and
\* leaves the rest of the document unchanged.
C9_OnlyTheNamedSlot ==
    /\ [] \A element_id \in ProbeIds, new_text \in ProbeTexts :
             ReplacesOnlyThat(files[DarkFile], element_id, new_text)
    /\ [][ writes'[DarkFile] > writes[DarkFile] =>
             LET before == files[DarkFile]
                 after  == files'[DarkFile]
             IN  /\ Len(after) = Len(before)
                 /\ \A i \in 1..Len(before) :
                       /\ after[i].id = before[i].id
                       /\ after[i].text = IF before[i].id \in SlotIds
                                          THEN SlotText(before[i].id)
                                          ELSE before[i].text
       ]_vars

\* a patched document that lacks commit_data and star_data_dots
C9_Witness ==
    /\ writes[DarkFile] >= 1
    /\ find(files[DarkFile], "commit_data") = 0
    /\ find(files[DarkFile], "star_data_dots") = 0
    /\ find(files[DarkFile], "repo_data") # 0
    /\ TextOf(files[DarkFile], "repo_data") = FormatThousands(repo_data)
    /\ TextOf(files[DarkFile], "age_data") = <<"?">>

\* C10: svg_overwrite applied to a document already patched with the same
\* metric values leaves the document as the first application left it.
C10_Idempotent ==
    [][ (writes[DarkFile] >= 1 /\ writes'[DarkFile] > writes[DarkFile]
            /\ UNCHANGED metrics)
        => files' = files ]_vars

\* a document patched twice with the same values
C10_Witness ==
    /\ pc = "patch"
    /\ writes[DarkFile] = 2
    /\ find(files[DarkFile], "repo_data") # 0
    /\ TextOf(files[DarkFile], "repo_data") = FormatThousands(repo_data)

====
